---- MODULE Spec2Model ----
(***************************************************************************)
(* A model of src/main.py: the tecopos glue service.  The service keeps a  *)
(* process-wide session map (user_context) and implements each endpoint as *)
(* a sequence of HTTP calls to the upstream API.  A request is a process   *)
(* whose steps are the handler's upstream calls: one action per call, each *)
(* including the handler's code up to its next call or its return.         *)
(* Strings that the code trims, lower-cases or searches are sequences of   *)
(* one-character strings, so that normalizar and get_base_url are computed *)
(* and not assumed.                                                        *)
(***************************************************************************)
EXTENDS Integers, Sequences, FiniteSets, TLC

\* ------------------------------------------------------------------ bounds

\* Requests accepted in one behaviour.
MaxRequests == 3
\* Product lines in one entrada-inteligente request.
MaxLines == 2
\* Pieces a product name is put together from, for the category inference.
MaxTrozos == 2

\* ----------------------------------------------------------------- strings

Upper == <<"A","B","C","D","E","F","G","H","I","J","K","L","M","N","O","P","Q","R","S","T","U","V","W","X","Y","Z","Ó">>
Lower == <<"a","b","c","d","e","f","g","h","i","j","k","l","m","n","o","p","q","r","s","t","u","v","w","x","y","z","ó">>
Whitespace == {" ", "\t", "\n"}

\* str.lower() on one character.
LowerChar(c) ==
    IF \E i \in 1..Len(Upper) : Upper[i] = c
    THEN Lower[CHOOSE i \in 1..Len(Upper) : Upper[i] = c]
    ELSE c

\* str.lower()
StrLower(s) == [i \in 1..Len(s) |-> LowerChar(s[i])]

RECURSIVE LStrip(_)
LStrip(s) == IF s # <<>> /\ Head(s) \in Whitespace THEN LStrip(Tail(s)) ELSE s

RECURSIVE RStrip(_)
RStrip(s) ==
    IF s # <<>> /\ s[Len(s)] \in Whitespace THEN RStrip(SubSeq(s, 1, Len(s) - 1)) ELSE s

\* str.strip()
StrStrip(s) == RStrip(LStrip(s))

\* `w in s` on strings.
StrContains(s, w) ==
    \E i \in 0..(Len(s) - Len(w)) : SubSeq(s, i + 1, i + Len(w)) = w

\* ----------------------------------------------------------------- helpers

ApiDev == <<"a","p","i","d","e","v">>

\* A get_base_url that answers the one base URL for every region.
RegionCualquiera(region) == TRUE

\* get_base_url raises the 400 "Región inválida" exactly when this is FALSE.
RegionValida(region) == StrStrip(StrLower(region)) = ApiDev

normalizar(texto) == StrLower(StrStrip(texto))

KwCerveza == <<"c","e","r","v","e","z","a">>
KwRon == <<"r","o","n">>
KwVino == <<"v","i","n","o">>
KwRefresco == <<"r","e","f","r","e","s","c","o">>
KwSoda == <<"s","o","d","a">>
KwJugos == <<"j","u","g","o","s">>

CatAlcohol == <<"B","e","b","i","d","a","s"," ","A","l","c","o","h","ó","l","i","c","a","s">>
CatRefrescos == <<"R","e","f","r","e","s","c","o","s">>
CatMercado == <<"M","e","r","c","a","d","o">>

\* The rules in the other order: the soft drinks first.
inferir_categoria_refrescos_primero(nombre) ==
    LET n == normalizar(nombre) IN
    IF \E palabra \in {KwRefresco, KwSoda, KwJugos} : StrContains(n, palabra)
    THEN CatRefrescos
    ELSE IF \E palabra \in {KwCerveza, KwRon, KwVino} : StrContains(n, palabra)
         THEN CatAlcohol
         ELSE CatMercado

inferir_categoria(nombre) ==
    LET n == normalizar(nombre) IN
    IF \E palabra \in {KwCerveza, KwRon, KwVino} : StrContains(n, palabra)
    THEN CatAlcohol
    ELSE IF \E palabra \in {KwRefresco, KwSoda, KwJugos} : StrContains(n, palabra)
         THEN CatRefrescos
         ELSE CatMercado

\* dict.get(key, default)
DictGet(d, key, default) == IF key \in DOMAIN d THEN d[key] ELSE default

\* `v is None` in the place of `not v`.
EsNone(v) == v = {}

\* An Optional value (a JSON value that may be null or missing) is a set with at
\* most one element; `not v` on it:
Falsy(v) == v = {} \/ v = {0}
FalsyStr(v) == v = {} \/ v = {""}

\* ------------------------------------------------------------------ inputs

Users == {"alice", "bob"}

NArroz == <<"A","r","r","o","z">>
NRon == <<"R","o","n">>
NRonVar == <<" ","R","O","N"," ">>
NRonViejo == <<"R","o","n"," ","V","i","e","j","o">>
NVino == <<"V","i","n","o">>
NBlank == <<" "," ">>
CatMercadoVar == <<"M","E","R","C","A","D","O"," ">>

\* Regions a login request may name: two spellings of the supported one, one other.
ApiDevVar == <<" ","A","p","i","D","e","v">>
RegionProd == <<"p","r","o","d">>
Regions == {ApiDev, ApiDevVar, RegionProd}

\* The product lines a request is built from (ProductoEntradaInteligente, before
\* validation): two spellings of one name that pass the validators ...
LinesOk ==
    { [nombre |-> NRon, cantidad |-> 1, precio |-> 20, moneda |-> "USD"],
      [nombre |-> NRonVar, cantidad |-> 3, precio |-> 30, moneda |-> "CUP"] }

\* ... and a blank name and a zero quantity, which do not.
LinesBad ==
    { [nombre |-> NBlank, cantidad |-> 1, precio |-> 10, moneda |-> "CUP"],
      [nombre |-> NRon, cantidad |-> 0, precio |-> 10, moneda |-> "CUP"] }

RECURSIVE SeqsUpTo(_, _)
SeqsUpTo(S, n) ==
    IF n = 0 THEN {<<>>}
    ELSE LET r == SeqsUpTo(S, n - 1) IN
         r \cup {Append(q, x) : q \in {t \in r : Len(t) = n - 1}, x \in S}

\* The product lists of the requests: up to n lines that pass the validators, or
\* fewer of them followed by one line that does not.
Productos(n) ==
    SeqsUpTo(LinesOk, n)
      \cup {Append(q, x) : q \in SeqsUpTo(LinesOk, n - 1), x \in LinesBad}

\* ---------------------------------------------------------------- upstream

\* The upstream API is outside the repository.  It is modelled as a store of
\* products, sales categories and applied stock entries; every call may answer
\* with a failure status and then changes nothing.

CatalogA ==
    << [id |-> 1, name |-> NRonViejo, type |-> "STOCK", salesCategoryId |-> 10,
        prices |-> <<[price |-> 10, codeCurrency |-> "EUR", systemPriceId |-> 1]>>],
       [id |-> 2, name |-> NRonVar, type |-> "STOCK", salesCategoryId |-> 10,
        prices |-> <<[price |-> 5, codeCurrency |-> "USD", systemPriceId |-> 1],
                     [price |-> 6, codeCurrency |-> "EUR", systemPriceId |-> 2]>>],
       [id |-> 3, name |-> NRon, type |-> "STOCK", salesCategoryId |-> 10,
        prices |-> <<[price |-> 7, codeCurrency |-> "CUP", systemPriceId |-> 1]>>],
       [id |-> 4, name |-> NVino, type |-> "STOCK", salesCategoryId |-> 10,
        prices |-> <<[price |-> 3, codeCurrency |-> "USD", systemPriceId |-> 1],
                     [price |-> 4, codeCurrency |-> "USD", systemPriceId |-> 2]>>],
       [id |-> 5, name |-> NRon, type |-> "MENU", salesCategoryId |-> 10] >>

CategoriesA ==
    << [id |-> 10, name |-> CatAlcohol],
       [id |-> 11, name |-> CatMercadoVar],
       [id |-> 12, name |-> CatMercado] >>

Areas == << [id |-> 5, name |-> "Almacen"], [id |-> 6, name |-> "Tienda"] >>

BusinessOf == [u \in Users |-> IF u = "alice" THEN 42 ELSE 7]

\* The token the upstream login answers a user with.
TokenOf == [u \in Users |-> IF u = "alice" THEN "T1" ELSE "T2"]

RECURSIVE MaxId(_)
MaxId(items) == IF items = <<>> THEN 0
                ELSE LET m == MaxId(Tail(items)) IN
                     IF Head(items).id > m THEN Head(items).id ELSE m

\* GET product?search=term: the products whose name contains the term, ignoring
\* case and surrounding blanks, in catalogue order.
UpstreamSearch(items, term) ==
    SelectSeq(items, LAMBDA it : StrContains(normalizar(it.name), normalizar(term)))

\* POST product / POST salescategory: the upstream stores the payload under a new id.
UpstreamCreate(items, payload) ==
    Append(items, [k \in DOMAIN payload \cup {"id"} |->
                      IF k = "id" THEN MaxId(items) + 1 ELSE payload[k]])

\* PATCH product/{id} with prices: each price sent replaces the stored price of the
\* same systemPriceId (and is added when there is none).
PatchPrices(stored, sent) ==
    LET kept == [i \in 1..Len(stored) |->
                    IF \E j \in 1..Len(sent) : sent[j].systemPriceId = stored[i].systemPriceId
                    THEN sent[CHOOSE j \in 1..Len(sent) :
                                 sent[j].systemPriceId = stored[i].systemPriceId]
                    ELSE stored[i]]
    IN kept \o SelectSeq(sent, LAMBDA e :
                   ~ \E i \in 1..Len(stored) : stored[i].systemPriceId = e.systemPriceId)

\* POST stock/product-entry: the quantity of every row is added to the stock of its
\* product in the area.
RECURSIVE UpstreamEntryRows(_, _, _)
UpstreamEntryRows(st, area, rows) ==
    IF rows = <<>> THEN st
    ELSE LET key == <<area, Head(rows).productId>>
             had == IF key \in DOMAIN st THEN st[key] ELSE 0 IN
         UpstreamEntryRows((key :> (had + Head(rows).quantity)) @@ st, area, Tail(rows))

UpstreamEntry(st, payload) == UpstreamEntryRows(st, payload.stockAreaId, payload.products)

UpstreamPatch(items, id, payload) ==
    [i \in 1..Len(items) |->
        IF items[i].id = id
        THEN [k \in DOMAIN items[i] \cup {"prices"} |->
                 IF k = "prices"
                 THEN PatchPrices(DictGet(items[i], "prices", <<>>), payload.prices)
                 ELSE items[i][k]]
        ELSE items[i]]

\* ------------------------------------------------------------------- state

Procs == {"w1", "w2"}

VARIABLES
    user_context,   \* the session map: user -> [token, businessId, region]
    products,       \* upstream: the product catalogue
    categories,     \* upstream: the sales categories
    stock,          \* upstream: the quantity entered per (stock area, product)
    nreq,           \* requests accepted so far
    pc,             \* per worker: where its request stands
    req,            \* per worker: the request body
    ctx,            \* per worker: the handler's ctx (the session it read)
    loc,            \* per worker: the handler's local variables
    calls,          \* per worker: the upstream calls its request has issued
    resp            \* per worker: the response of its request

upstream == <<products, categories, stock>>
vars == <<user_context, products, categories, stock, nreq,
          pc, req, ctx, loc, calls, resp>>

NoReq == [kind |-> "none"]
NoCtx == [token |-> "", businessId |-> 0, region |-> <<>>]
NoLoc == [i |-> 0, token |-> {}, productos |-> <<>>, pendientes |-> <<>>,
          actualizados |-> <<>>, procesados |-> <<>>, producto_id |-> 0,
          categoria_nombre |-> <<>>, categoria_id |-> 0]
NoResp == [status |-> 0, mensaje |-> "", data |-> <<>>]

Elem(v) == CHOOSE x \in v : TRUE

\* The headers of an authenticated call that the model keeps: the bearer token and
\* x-app-businessid.
get_auth_headers(token, businessid) ==
    [Authorization |-> <<"Bearer", token>>, businessid |-> <<businessid>>]

\* The headers login_tecopos builds before it has a token.
LoginHeaders == [Authorization |-> <<>>, businessid |-> <<>>]

Headers(p) == get_auth_headers(ctx[p].token, ctx[p].businessId)

\* One upstream call, as issued, with the answer: its status and, for a listing, the
\* items of its body.
Call(method, path, headers, body, status, items) ==
    [method |-> method, path |-> path, auth |-> headers.Authorization,
     bid |-> headers.businessid, body |-> body, status |-> status,
     items |-> IF status = 200 THEN items ELSE <<>>]

Init ==
    /\ user_context = <<>>
    /\ \/ products = CatalogA /\ categories = CategoriesA
       \/ products = <<>> /\ categories = <<>>
    /\ stock = <<>>
    /\ nreq = 0
    /\ pc = [p \in Procs |-> "idle"]
    /\ req = [p \in Procs |-> NoReq]
    /\ ctx = [p \in Procs |-> NoCtx]
    /\ loc = [p \in Procs |-> NoLoc]
    /\ calls = [p \in Procs |-> <<>>]
    /\ resp = [p \in Procs |-> NoResp]

\* The handler returns (or raises HTTPException): the request is answered.
Finish(p, status, mensaje, data) ==
    /\ pc' = [pc EXCEPT ![p] = "done"]
    /\ resp' = [resp EXCEPT ![p] = [status |-> status, mensaje |-> mensaje, data |-> data]]

Goto(p, label) ==
    /\ pc' = [pc EXCEPT ![p] = label]
    /\ UNCHANGED resp

\* A request is accepted by an idle worker.
Free(p) == pc[p] = "idle" /\ nreq < MaxRequests

Accept(p, data) ==
    /\ nreq' = nreq + 1
    /\ req' = [req EXCEPT ![p] = data]

Issue(p, call) == calls' = [calls EXCEPT ![p] = Append(@, call)]

\* -------------------------------------------------------------------- login

\* A store that keeps the entry a user already has (dict.setdefault).
StoreSessionSetDefault(store, usuario, token, businessid, region) ==
    [u \in DOMAIN store \cup {usuario} |->
        IF u \in DOMAIN store THEN store[u]
        ELSE [token |-> token, businessId |-> businessid, region |-> region]]

\* A store rebound to a map that holds the new entry only.
StoreSessionSolo(store, usuario, token, businessid, region) ==
    [u \in {usuario} |-> [token |-> token, businessId |-> businessid, region |-> region]]

\* The final step of a successful login: user_context[data.usuario] = {...}.
StoreSession(store, usuario, token, businessid, region) ==
    [u \in DOMAIN store \cup {usuario} |->
        IF u = usuario
        THEN [token |-> token, businessId |-> businessid, region |-> region]
        ELSE store[u]]

\* if not token or not businessid
LoginFalla(token, businessid) == FalsyStr(token) \/ Falsy(businessid)

\* The session written before the check of token and businessId.
SesionTrasLoginAntes(store, usuario, token, businessid, region) ==
    IF token = {} \/ businessid = {} THEN store
    ELSE StoreSession(store, usuario, Elem(token), Elem(businessid), region)

\* The session map after login_tecopos has looked at the token and the businessId:
\* stored only past the check.
SesionTrasLogin(store, usuario, token, businessid, region) ==
    IF LoginFalla(token, businessid) THEN store
    ELSE StoreSession(store, usuario, Elem(token), Elem(businessid), region)

login_tecopos(p, data) ==
    /\ Free(p)
    /\ Accept(p, data)
    /\ IF RegionValida(data.region)
       THEN Goto(p, "login_post")
       ELSE Finish(p, 400, "Región inválida", <<>>)
    /\ UNCHANGED <<user_context, upstream, ctx, loc, calls>>

LoginPost(p) ==
    /\ pc[p] = "login_post"
    /\ \E status \in {200, 401}, token \in {{}, {TokenOf[req[p].usuario]}} :
         /\ status = 200 \/ token = {}
         /\ Issue(p, Call("POST", "security/login", LoginHeaders,
                          [username |-> req[p].usuario], status, <<>>))
         /\ IF status # 200
            THEN /\ Finish(p, 401, "Credenciales inválidas", <<>>)
                 /\ UNCHANGED loc
            ELSE /\ Goto(p, "login_info")
                 /\ loc' = [loc EXCEPT ![p].token = token]
    /\ UNCHANGED <<user_context, upstream, nreq, req, ctx>>

LoginInfo(p) ==
    /\ pc[p] = "login_info"
    /\ \E status \in {200, 500}, json \in BOOLEAN,
          businessid \in {{}, {0}, {BusinessOf[req[p].usuario]}} :
         LET token == loc[p].token
             bearer == IF token = {} THEN "None" ELSE Elem(token) IN
         /\ json \/ (status = 500 /\ businessid = {})
         /\ Issue(p, Call("GET", "security/user",
                          [Authorization |-> <<"Bearer", bearer>>, businessid |-> <<>>],
                          <<>>, status, <<>>))
         /\ IF ~json
            THEN \* info.json() raises: the framework answers 500
                 /\ Finish(p, 500, "Internal Server Error", <<>>)
                 /\ UNCHANGED user_context
            ELSE /\ user_context' = SesionTrasLogin(user_context, req[p].usuario, token,
                                                    businessid, req[p].region)
                 /\ IF LoginFalla(token, businessid)
                    THEN Finish(p, 400, "No se pudo obtener token o businessId", <<>>)
                    ELSE Finish(p, 200, "Login exitoso", <<Elem(businessid)>>)
    /\ UNCHANGED <<upstream, nreq, req, ctx, loc>>

\* The response has been sent: the worker is free again.
Respond(p) ==
    /\ pc[p] = "done"
    /\ pc' = [pc EXCEPT ![p] = "idle"]
    /\ req' = [req EXCEPT ![p] = NoReq]
    /\ ctx' = [ctx EXCEPT ![p] = NoCtx]
    /\ loc' = [loc EXCEPT ![p] = NoLoc]
    /\ calls' = [calls EXCEPT ![p] = <<>>]
    /\ resp' = [resp EXCEPT ![p] = NoResp]
    /\ UNCHANGED <<user_context, upstream, nreq>>

\* ----------------------------------------------------- category resolution

\* A lookup that answers an anonymous session for an unknown user.
UserContextGetAnon(store, usuario) ==
    IF usuario \in DOMAIN store THEN {store[usuario]}
    ELSE {[token |-> "", businessId |-> 0, region |-> ApiDev]}

\* ctx = user_context.get(data.usuario), as an Optional.
UserContextGet(store, usuario) ==
    IF usuario \in DOMAIN store THEN {store[usuario]} ELSE {}

\* A scan that trusts the upstream's filter and takes whatever it lists.
ExistentePrimero(items, nombre) == items

\* A scan that trims but compares case-sensitively.
ExistenteSinLower(items, nombre) ==
    SelectSeq(items, LAMBDA x : StrStrip(DictGet(x, "name", <<>>)) = StrStrip(nombre))

\* A scan that normalises the listed name and not the requested one.
ExistenteSinNormalizarPedido(items, nombre) ==
    SelectSeq(items, LAMBDA x : normalizar(DictGet(x, "name", <<>>)) = nombre)

\* next((x for x in items if normalizar(x.get("name", "")) == normalizar(nombre)), None)
Existente(items, nombre) ==
    SelectSeq(items, LAMBDA x : normalizar(DictGet(x, "name", <<>>)) = normalizar(nombre))

\* A POST whose status is not looked at.
CreadoOkSinMirar(status) == TRUE

\* status_code in [200, 201]: the POST went through.
CreadoOk(status) == status \in {200, 201}

\* Where obtener_o_crear_categoria returns to.
AfterCategoria(p) == IF req[p].kind = "crear" THEN "crear_post" ELSE "prod_post"

\* obtener_o_crear_categoria: GET salescategory and the scan of its items.
CatGet(p) ==
    /\ pc[p] = "cat_get"
    /\ \E status \in {200, 500} :
         /\ Issue(p, Call("GET", "salescategory", Headers(p), <<>>, status, categories))
         /\ IF status # 200
            THEN /\ Finish(p, 500, "No se pudieron consultar las categorías", <<>>)
                 /\ UNCHANGED loc
            ELSE LET existente == Existente(categories, loc[p].categoria_nombre) IN
                 IF existente # <<>>
                 THEN /\ loc' = [loc EXCEPT ![p].categoria_id = existente[1].id]
                      /\ Goto(p, AfterCategoria(p))
                 ELSE /\ Goto(p, "cat_post")
                      /\ UNCHANGED loc
    /\ UNCHANGED <<user_context, upstream, nreq, req, ctx>>

\* obtener_o_crear_categoria: POST salescategory.
CatPost(p) ==
    /\ pc[p] = "cat_post"
    /\ \E status \in {201, 500} :
         LET payload == [name |-> loc[p].categoria_nombre] IN
         /\ Issue(p, Call("POST", "salescategory", Headers(p), payload, status, <<>>))
         /\ IF ~CreadoOk(status)
            THEN /\ Finish(p, 500, "No se pudo crear la categoría", <<>>)
                 /\ UNCHANGED <<loc, categories>>
            ELSE /\ categories' = UpstreamCreate(categories, payload)
                 /\ loc' = [loc EXCEPT ![p].categoria_id = MaxId(categories) + 1]
                 /\ Goto(p, AfterCategoria(p))
    /\ UNCHANGED <<user_context, products, stock, nreq, req, ctx>>

\* ------------------------------------------------ crear-producto-con-categoria

CrearPayload(tipo, nombre, precio, moneda, categoria_id) ==
    [type |-> tipo, name |-> nombre,
     prices |-> <<[price |-> precio, codeCurrency |-> moneda, systemPriceId |-> 1]>>,
     images |-> <<>>, salesCategoryId |-> categoria_id]

crear_producto_con_categoria(p, data) ==
    /\ Free(p)
    /\ Accept(p, data)
    /\ LET c == UserContextGet(user_context, data.usuario) IN
       IF c = {}
       THEN /\ Finish(p, 403, "Usuario no autenticado", <<>>)
            /\ UNCHANGED <<ctx, loc>>
       ELSE IF ~RegionValida(Elem(c).region)
       THEN /\ Finish(p, 400, "Región inválida", <<>>)
            /\ UNCHANGED <<ctx, loc>>
       ELSE /\ ctx' = [ctx EXCEPT ![p] = Elem(c)]
            /\ loc' = [loc EXCEPT ![p].categoria_nombre =
                          IF data.categorias # <<>> THEN data.categorias[1]
                          ELSE inferir_categoria(data.nombre)]
            /\ Goto(p, "cat_get")
    /\ UNCHANGED <<user_context, upstream, calls>>

CrearPost(p) ==
    /\ pc[p] = "crear_post"
    /\ \E status \in {200, 201, 500} :
         LET payload == CrearPayload(req[p].tipo, req[p].nombre, req[p].precio,
                                     req[p].moneda, loc[p].categoria_id) IN
         /\ Issue(p, Call("POST", "product", Headers(p), payload, status, <<>>))
         /\ IF ~CreadoOk(status)
            THEN /\ Finish(p, 500, "No se pudo crear el producto", <<>>)
                 /\ UNCHANGED products
            ELSE /\ products' = UpstreamCreate(products, payload)
                 /\ Finish(p, 200, "Producto creado", <<products'[Len(products')]>>)
    /\ UNCHANGED <<user_context, categories, stock, nreq, req, ctx, loc>>

\* --------------------------------------------------------- entrada-inteligente

\* A validator that lets a zero quantity through.
validar_cantidad_no_negativa(v) == v >= 0

validar_cantidad_positiva(v) == v > 0
validar_nombre_no_vacio(v) == StrStrip(v) # <<>>

\* The request body passes ProductoEntradaInteligente's validators on every line.
Validos(productos) ==
    \A i \in 1..Len(productos) :
        /\ validar_cantidad_positiva(productos[i].cantidad)
        /\ validar_nombre_no_vacio(productos[i].nombre)

entrada_inteligente(p, data) ==
    /\ Free(p)
    /\ Accept(p, data)
    /\ LET c == UserContextGet(user_context, data.usuario) IN
       IF ~Validos(data.productos)
       THEN \* the body is rejected before the handler runs
            /\ Finish(p, 422, "Unprocessable Entity", <<>>)
            /\ UNCHANGED <<ctx, loc>>
       ELSE IF c = {}
       THEN /\ Finish(p, 403, "Usuario no autenticado", <<>>)
            /\ UNCHANGED <<ctx, loc>>
       ELSE IF ~RegionValida(Elem(c).region)
       THEN /\ Finish(p, 400, "Región inválida", <<>>)
            /\ UNCHANGED <<ctx, loc>>
       ELSE /\ ctx' = [ctx EXCEPT ![p] = Elem(c)]
            /\ IF Falsy(data.stockAreaId)
               THEN Goto(p, "areas_get") /\ UNCHANGED loc
               ELSE IF data.productos = <<>>
               THEN /\ Finish(p, 200, "Productos procesados correctamente", <<>>)
                    /\ UNCHANGED loc
               ELSE /\ loc' = [loc EXCEPT ![p].i = 1]
                    /\ Goto(p, "prod_search")
    /\ UNCHANGED <<user_context, upstream, calls>>

AreasGet(p) ==
    /\ pc[p] = "areas_get"
    /\ \E status \in {200, 500} :
         /\ Issue(p, Call("GET", "area?type=STOCK", Headers(p), <<>>, status, Areas))
         /\ IF status # 200
            THEN Finish(p, 500, "No se pudieron obtener los almacenes", <<>>)
            ELSE Finish(p, 200, "Seleccione un área de stock",
                        [i \in 1..Len(Areas) |->
                            [id |-> Areas[i].id, nombre |-> Areas[i].name]])
    /\ UNCHANGED <<user_context, upstream, nreq, req, ctx, loc>>

\* buscar_o_crear_producto: GET product?search= and the scan of its items.
ProdSearch(p) ==
    /\ pc[p] = "prod_search"
    /\ LET producto == req[p].productos[loc[p].i] IN
       \E status \in {200, 500} :
         /\ Issue(p, Call("GET", "product?search", Headers(p), producto.nombre, status,
                          UpstreamSearch(products, producto.nombre)))
         /\ IF status # 200
            THEN /\ Finish(p, 500, "No se pudo buscar", <<producto.nombre>>)
                 /\ UNCHANGED loc
            ELSE LET items == UpstreamSearch(products, producto.nombre)
                     existente == Existente(items, producto.nombre) IN
                 IF existente # <<>>
                 THEN /\ loc' = [loc EXCEPT ![p].producto_id = existente[1].id]
                      /\ Goto(p, "entry_post")
                 ELSE /\ loc' = [loc EXCEPT ![p].categoria_nombre =
                                    inferir_categoria(producto.nombre)]
                      /\ Goto(p, "cat_get")
    /\ UNCHANGED <<user_context, upstream, nreq, req, ctx>>

\* buscar_o_crear_producto: POST product.
ProdPost(p) ==
    /\ pc[p] = "prod_post"
    /\ LET producto == req[p].productos[loc[p].i] IN
       \E status \in {201, 500} :
         LET payload == CrearPayload("STOCK", producto.nombre, producto.precio,
                                     producto.moneda, loc[p].categoria_id) IN
         /\ Issue(p, Call("POST", "product", Headers(p), payload, status, <<>>))
         /\ IF ~CreadoOk(status)
            THEN /\ Finish(p, 500, "No se pudo crear", <<producto.nombre>>)
                 /\ UNCHANGED <<loc, products>>
            ELSE /\ products' = UpstreamCreate(products, payload)
                 /\ loc' = [loc EXCEPT ![p].producto_id = MaxId(products) + 1]
                 /\ Goto(p, "entry_post")
    /\ UNCHANGED <<user_context, categories, stock, nreq, req, ctx>>

\* A payload of one unit, whatever the line asks for.
EntradaPayloadUnaUnidad(producto_id, cantidad, stockAreaId) ==
    [products |-> <<[productId |-> producto_id, quantity |-> 1]>>,
     stockAreaId |-> stockAreaId, continue |-> FALSE]

EntradaPayload(producto_id, cantidad, stockAreaId) ==
    [products |-> <<[productId |-> producto_id, quantity |-> cantidad]>>,
     stockAreaId |-> stockAreaId, continue |-> FALSE]

\* The stock entry of the current line, and the loop's step to the next line.
EntryPost(p) ==
    /\ pc[p] = "entry_post"
    /\ LET producto == req[p].productos[loc[p].i]
           payload == EntradaPayload(loc[p].producto_id, producto.cantidad,
                                     Elem(req[p].stockAreaId)) IN
       \E status \in {200, 500} :
         /\ Issue(p, Call("POST", "stock/product-entry", Headers(p), payload, status, <<>>))
         /\ IF ~CreadoOk(status)
            THEN /\ Finish(p, 500, "No se pudo dar entrada", <<producto.nombre>>)
                 /\ UNCHANGED <<loc, stock>>
            ELSE LET procesados == Append(loc[p].procesados, producto.nombre) IN
                 /\ stock' = UpstreamEntry(stock, payload)
                 /\ loc' = [loc EXCEPT ![p].procesados = procesados, ![p].i = @ + 1]
                 /\ IF loc[p].i = Len(req[p].productos)
                    THEN Finish(p, 200, "Productos procesados correctamente", procesados)
                    ELSE Goto(p, "prod_search")
    /\ UNCHANGED <<user_context, products, categories, nreq, req, ctx>>

\* ---------------------------------------------------------- actualizar-monedas

\* A loop that collects every price entry, whatever its currency.
RECURSIVE PendientesDeSinFiltro(_, _, _)
PendientesDeSinFiltro(p, precios, moneda_actual) ==
    IF precios = <<>> THEN <<>>
    ELSE <<[id |-> p.id, nombre |-> p.name, price |-> Head(precios).price,
            systemPriceId |-> DictGet(Head(precios), "systemPriceId", 1)]>>
         \o PendientesDeSinFiltro(p, Tail(precios), moneda_actual)

\* The inner loop of actualizar_monedas over one product's prices.
RECURSIVE PendientesDe(_, _, _)
PendientesDe(p, precios, moneda_actual) ==
    IF precios = <<>> THEN <<>>
    ELSE LET precio == Head(precios)
             rest == PendientesDe(p, Tail(precios), moneda_actual) IN
         IF DictGet(precio, "codeCurrency", "") = moneda_actual
         THEN <<[id |-> p.id, nombre |-> p.name, price |-> precio.price,
                 systemPriceId |-> DictGet(precio, "systemPriceId", 1)]>> \o rest
         ELSE rest

\* The outer loop: pendientes, one entry per matching price entry, in order.
RECURSIVE Pendientes(_, _)
Pendientes(productos, moneda_actual) ==
    IF productos = <<>> THEN <<>>
    ELSE PendientesDe(Head(productos), DictGet(Head(productos), "prices", <<>>),
                      moneda_actual)
         \o Pendientes(Tail(productos), moneda_actual)

\* A payload with the systemPriceId of the create payload.
PatchPayloadPrecio1(prod, nueva_moneda) ==
    [prices |-> <<[systemPriceId |-> 1, price |-> prod.price,
                   codeCurrency |-> nueva_moneda]>>]

PatchPayload(prod, nueva_moneda) ==
    [prices |-> <<[systemPriceId |-> prod.systemPriceId, price |-> prod.price,
                   codeCurrency |-> nueva_moneda]>>]

\* patch_res.status_code == 200
PatchOkSolo200(status) == status = 200

\* patch_res.status_code in [200, 204]
PatchOk(status) == status \in {200, 204}

\* forzar_todos taken for a confirmation.
EsSimulacionSinForzar(data) == ~data.confirmar /\ ~data.forzar_todos

\* if not data.confirmar
EsSimulacion(data) == ~data.confirmar

actualizar_monedas(p, data) ==
    /\ Free(p)
    /\ Accept(p, data)
    /\ LET c == UserContextGet(user_context, data.usuario) IN
       IF c = {}
       THEN /\ Finish(p, 403, "Usuario no autenticado", <<>>)
            /\ UNCHANGED ctx
       ELSE IF ~RegionValida(Elem(c).region)
       THEN /\ Finish(p, 400, "Región inválida", <<>>)
            /\ UNCHANGED ctx
       ELSE /\ ctx' = [ctx EXCEPT ![p] = Elem(c)]
            /\ Goto(p, "mon_get")
    /\ UNCHANGED <<user_context, upstream, loc, calls>>

\* GET product, the computation of pendientes, and the preview's return.
MonGet(p) ==
    /\ pc[p] = "mon_get"
    /\ \E status \in {200, 500} :
         /\ Issue(p, Call("GET", "product", Headers(p), <<>>, status, products))
         /\ IF status # 200
            THEN /\ Finish(p, 500, "Error al obtener productos", <<>>)
                 /\ UNCHANGED loc
            ELSE LET pendientes == Pendientes(products, req[p].moneda_actual) IN
                 /\ loc' = [loc EXCEPT ![p].productos = products,
                                       ![p].pendientes = pendientes, ![p].i = 1]
                 /\ IF EsSimulacion(req[p])
                    THEN Finish(p, 200, "Simulación de cambio de moneda", pendientes)
                    ELSE IF pendientes = <<>>
                    THEN Finish(p, 200, "Monedas actualizadas correctamente", <<>>)
                    ELSE Goto(p, "mon_patch")
    /\ UNCHANGED <<user_context, upstream, nreq, req, ctx>>

\* One round of the PATCH loop.
MonPatch(p) ==
    /\ pc[p] = "mon_patch"
    /\ LET prod == loc[p].pendientes[loc[p].i]
           payload == PatchPayload(prod, req[p].nueva_moneda) IN
       \E status \in {200, 204, 500} :
         LET actualizados == IF PatchOk(status)
                             THEN Append(loc[p].actualizados, prod.nombre)
                             ELSE loc[p].actualizados IN
         /\ Issue(p, Call("PATCH", "product/{id}", Headers(p),
                          [id |-> prod.id, prices |-> payload.prices], status, <<>>))
         /\ products' = IF status \in 200..299
                        THEN UpstreamPatch(products, prod.id, payload)
                        ELSE products
         /\ loc' = [loc EXCEPT ![p].actualizados = actualizados, ![p].i = @ + 1]
         /\ IF loc[p].i = Len(loc[p].pendientes)
            THEN Finish(p, 200, "Monedas actualizadas correctamente", actualizados)
            ELSE Goto(p, "mon_patch")
    /\ UNCHANGED <<user_context, categories, stock, nreq, req, ctx>>

\* ------------------------------------------------------------ specification

LoginData == [kind : {"login"}, usuario : Users, region : Regions]

Producto ==
    [kind : {"crear"}, usuario : Users, nombre : {NArroz}, precio : {15},
     moneda : {"USD"}, tipo : {"STOCK"}, categorias : {<<>>, <<CatMercadoVar>>}]

EntradaInteligenteRequest ==
    [kind : {"entrada"}, usuario : Users, stockAreaId : {{}, {0}, {5}},
     productos : Productos(MaxLines)]

CambioMonedaRequest ==
    [kind : {"monedas"}, usuario : Users, moneda_actual : {"USD", "EUR"},
     nueva_moneda : {"CUP"}, confirmar : BOOLEAN, forzar_todos : BOOLEAN]

\* One step of worker p: it accepts a request drawn from the given bodies, or its
\* request advances by one upstream call, or its response is sent.
StepOf(p, logins, creaciones, entradas, cambios) ==
    \/ Free(p) /\ \E data \in logins : login_tecopos(p, data)
    \/ LoginPost(p)
    \/ LoginInfo(p)
    \/ Free(p) /\ \E data \in creaciones : crear_producto_con_categoria(p, data)
    \/ CatGet(p)
    \/ CatPost(p)
    \/ CrearPost(p)
    \/ Free(p) /\ \E data \in entradas : entrada_inteligente(p, data)
    \/ AreasGet(p)
    \/ ProdSearch(p)
    \/ ProdPost(p)
    \/ EntryPost(p)
    \/ Free(p) /\ \E data \in cambios : actualizar_monedas(p, data)
    \/ MonGet(p)
    \/ MonPatch(p)
    \/ Respond(p)

Step(p) == StepOf(p, LoginData, Producto, EntradaInteligenteRequest, CambioMonedaRequest)

\* One worker: the requests are served one after the other.
Next == Step("w1")

Spec == Init /\ [][Next]_vars

\* The request bodies of the concurrent specification: logins of both users, and
\* alice's requests to the three authenticated flows.
LoginDataConc == {d \in LoginData : d.region \in {ApiDev, RegionProd}}
ProductoConc == {d \in Producto : d.usuario = "alice" /\ d.categorias = <<>>}
EntradaConc ==
    [kind : {"entrada"}, usuario : {"alice"}, stockAreaId : {{0}, {5}},
     productos : {<<l>> : l \in LinesOk}]
CambioMonedaConc ==
    {d \in CambioMonedaRequest :
        d.usuario = "alice" /\ d.moneda_actual = "USD" /\ d.confirmar /\ ~d.forzar_todos}

\* Two workers: the steps of two requests interleave, one upstream call at a time.
NextConc ==
    \E p \in Procs : StepOf(p, LoginDataConc, ProductoConc, EntradaConc, CambioMonedaConc)

SpecConc == Init /\ [][NextConc]_vars

\* The pieces of the product names given to inferir_categoria: the keywords in
\* several spellings, a word short of a keyword by its last letter, a word with no
\* keyword, a blank and a syllable.
Trozos ==
    { KwCerveza, <<"R","O","N">>, NVino, KwRefresco, <<"S","o","d","a">>,
      <<"J","U","G","O","S">>, <<"j","u","g","o">>, NArroz, <<" ">>, <<"T","o">> }

RECURSIVE Concat(_)
Concat(ss) == IF ss = <<>> THEN <<>> ELSE Head(ss) \o Concat(Tail(ss))

Nombres == {Concat(ss) : ss \in SeqsUpTo(Trozos, MaxTrozos)}

\* A call of inferir_categoria on its own: the name is the worker's request, the
\* category its answer.
InitInferir ==
    /\ user_context = <<>>
    /\ products = <<>> /\ categories = <<>> /\ stock = <<>>
    /\ nreq = 0
    /\ pc = [p \in Procs |-> "idle"]
    /\ req \in {[p \in Procs |-> IF p = "w1" THEN [kind |-> "inferir", nombre |-> n]
                                 ELSE NoReq] : n \in Nombres}
    /\ ctx = [p \in Procs |-> NoCtx]
    /\ loc = [p \in Procs |-> NoLoc]
    /\ calls = [p \in Procs |-> <<>>]
    /\ resp = [p \in Procs |-> NoResp]

Inferir(p) ==
    /\ pc[p] = "idle"
    /\ req[p].kind = "inferir"
    /\ Finish(p, 200, "", inferir_categoria(req[p].nombre))
    /\ UNCHANGED <<user_context, upstream, nreq, req, ctx, loc, calls>>

NextInferir == Inferir("w1")

SpecInferir == InitInferir /\ [][NextInferir]_vars

\* ------------------------------------------------------------------- claims

AuthFlows == {"crear", "entrada", "monedas"}

\* Worker p accepts a request in this step.
Accepts(p) == pc[p] = "idle" /\ pc'[p] # "idle"

\* A product line that the service is specified to accept: a positive quantity and
\* a name with a character that is not blank.
LineaValida(l) ==
    /\ l.cantidad > 0
    /\ \E i \in 1..Len(l.nombre) : l.nombre[i] \notin {" ", "\t", "\n"}

CuerpoValido(data) ==
    data.kind = "entrada" => \A i \in 1..Len(data.productos) : LineaValida(data.productos[i])

\* C1: a request to crear-producto-con-categoria, entrada-inteligente or
\* actualizar-monedas that reaches its handler (its body passes validation) for a user
\* with no entry in the session map ends at once with the 403 "Usuario no
\* autenticado", with no upstream call issued and the session map and the upstream
\* unchanged.
C1_SinSesion403 ==
    [][\A p \in Procs :
          (/\ Accepts(p)
           /\ req'[p].kind \in AuthFlows
           /\ req'[p].usuario \notin DOMAIN user_context
           /\ CuerpoValido(req'[p]))
          => (/\ pc'[p] = "done"
              /\ resp'[p].status = 403
              /\ resp'[p].mensaje = "Usuario no autenticado"
              /\ calls'[p] = <<>>
              /\ user_context' = user_context
              /\ upstream' = upstream)]_vars

\* A monedas request of a user without session was answered while another user
\* holds a session.
C1_Witness ==
    \E p \in Procs :
        /\ pc[p] = "done"
        /\ req[p].kind = "monedas"
        /\ req[p].usuario \notin DOMAIN user_context
        /\ DOMAIN user_context # {}
        /\ resp[p].status = 403

\* C7: every step of a login request other than the final step of a successful login
\* leaves the session map as it was: a login that fails, at whatever step, has not
\* touched the prior session of its user.
C7_LoginFallidoNoToca ==
    [][\A p \in Procs :
          (/\ req'[p].kind = "login"
           /\ pc'[p] # pc[p]
           /\ ~(pc'[p] = "done" /\ resp'[p].status = 200))
          => user_context' = user_context]_vars

\* A login of a user who holds a session failed after the user-info call.
C7_Witness ==
    \E p \in Procs :
        /\ pc[p] = "done"
        /\ req[p].kind = "login"
        /\ resp[p].status = 400
        /\ Len(calls[p]) = 2
        /\ req[p].usuario \in DOMAIN user_context
        /\ user_context[req[p].usuario].region # req[p].region

\* C10: an entrada-inteligente request with a line whose quantity is <= 0 or whose
\* name is blank is rejected when it is accepted, whatever its other lines and
\* whether or not its user holds a session: no upstream call, nothing changed
\* upstream.
C10_LineaInvalidaRechazada ==
    [][\A p \in Procs :
          (/\ Accepts(p)
           /\ req'[p].kind = "entrada"
           /\ \E i \in 1..Len(req'[p].productos) : ~LineaValida(req'[p].productos[i]))
          => (/\ pc'[p] = "done"
              /\ resp'[p].status = 422
              /\ calls'[p] = <<>>
              /\ upstream' = upstream
              /\ user_context' = user_context)]_vars

\* A logged-in user's request with a valid first line and an invalid second line was
\* rejected.
C10_Witness ==
    \E p \in Procs :
        /\ pc[p] = "done"
        /\ req[p].kind = "entrada"
        /\ req[p].usuario \in DOMAIN user_context
        /\ req[p].stockAreaId = {5}
        /\ Len(req[p].productos) = 2
        /\ LineaValida(req[p].productos[1])
        /\ req[p].productos[2].cantidad = 0
        /\ resp[p].status = 422
        /\ calls[p] = <<>>

\* The price entries of a listed product.
PreciosDe(item) == IF "prices" \in DOMAIN item THEN item.prices ELSE <<>>

\* The places <<product, price entry>> of a listing whose currency is `moneda`.
Coinciden(items, moneda) ==
    {ij \in UNION {{<<i, j>> : j \in 1..Len(PreciosDe(items[i]))} : i \in 1..Len(items)} :
        PreciosDe(items[ij[1]])[ij[2]].codeCurrency = moneda}

Antes(a, b) == a[1] < b[1] \/ (a[1] = b[1] /\ a[2] < b[2])

\* The preview of a listing: one entry per matching price entry, in listing order.
PreviewDe(items, moneda) ==
    LET M == Coinciden(items, moneda) IN
    [k \in 1..Cardinality(M) |->
        LET ij == CHOOSE x \in M : Cardinality({y \in M : Antes(y, x)}) = k - 1 IN
        [id |-> items[ij[1]].id, nombre |-> items[ij[1]].name,
         price |-> PreciosDe(items[ij[1]])[ij[2]].price,
         systemPriceId |-> PreciosDe(items[ij[1]])[ij[2]].systemPriceId]]

\* C2: every step of an actualizar-monedas request with confirmar = false, whatever
\* forzar_todos, leaves the upstream and the session map unchanged and has issued
\* only GET calls; when its product listing succeeded the request ends ok with the
\* preview of that listing.
C2_SimulacionNoMuta ==
    [][\A p \in Procs :
          (/\ req'[p].kind = "monedas"
           /\ ~req'[p].confirmar
           /\ pc'[p] # pc[p])
          => (/\ upstream' = upstream
              /\ user_context' = user_context
              /\ \A k \in 1..Len(calls'[p]) : calls'[p][k].method = "GET"
              /\ (pc'[p] = "done" /\ Len(calls'[p]) = 1 /\ calls'[p][1].status = 200)
                 => (/\ resp'[p].status = 200
                     /\ resp'[p].data = PreviewDe(products, req'[p].moneda_actual)))]_vars

\* A preview with forzar_todos set listed three entries.
C2_Witness ==
    \E p \in Procs :
        /\ pc[p] = "done"
        /\ req[p].kind = "monedas"
        /\ ~req[p].confirmar
        /\ req[p].forzar_todos
        /\ resp[p].status = 200
        /\ Len(resp[p].data) = 3

\* A confirmed actualizar-monedas request whose listing succeeded has ended.
ConfirmadoHecho(p) ==
    /\ pc[p] = "done"
    /\ req[p].kind = "monedas"
    /\ req[p].confirmar
    /\ Len(calls[p]) >= 1
    /\ calls[p][1].status = 200

\* C3: a confirmed actualizar-monedas request has issued a PATCH for exactly the
\* products of the preview of the listing it was given, and every price entry of a
\* PATCH has the price and systemPriceId of a matching entry of that product and the
\* currency nueva_moneda.
C3_PatchSoloPrevistos ==
    \A p \in Procs :
        ConfirmadoHecho(p) =>
            LET items == calls[p][1].items
                preview == PreviewDe(items, req[p].moneda_actual)
                patches == {k \in 1..Len(calls[p]) : calls[p][k].method = "PATCH"}
            IN /\ {calls[p][k].body.id : k \in patches}
                    = {preview[i].id : i \in 1..Len(preview)}
               /\ \A k \in patches :
                    \A e \in 1..Len(calls[p][k].body.prices) :
                        LET sent == calls[p][k].body.prices[e] IN
                        /\ sent.codeCurrency = req[p].nueva_moneda
                        /\ \E i \in 1..Len(preview) :
                              /\ preview[i].id = calls[p][k].body.id
                              /\ preview[i].price = sent.price
                              /\ preview[i].systemPriceId = sent.systemPriceId

\* A confirmed request patched some products of a listing and left another alone.
C3_Witness ==
    \E p \in Procs :
        /\ ConfirmadoHecho(p)
        /\ req[p].moneda_actual = "USD"
        /\ Len(calls[p]) = 4
        /\ \E i \in 1..Len(calls[p][1].items) :
              \A k \in 2..Len(calls[p]) : calls[p][k].body.id # calls[p][1].items[i].id

\* C9: a confirmed actualizar-monedas request whose listing succeeded ends ok after
\* one PATCH per pending entry, in order, whatever the PATCHes answered, and
\* productos_actualizados is the names of the entries whose PATCH was answered with
\* a 2xx status, in order.
C9_PatchAislado ==
    \A p \in Procs :
        ConfirmadoHecho(p) =>
            LET pend == PreviewDe(calls[p][1].items, req[p].moneda_actual)
                patch == Tail(calls[p])
                ok == {k \in 1..Len(patch) : patch[k].status \in 200..299}
            IN /\ resp[p].status = 200
               /\ Len(patch) = Len(pend)
               /\ \A k \in 1..Len(patch) :
                     patch[k].method = "PATCH" /\ patch[k].body.id = pend[k].id
               /\ Len(resp[p].data) = Cardinality(ok)
               /\ \A k \in ok :
                     resp[p].data[Cardinality({j \in ok : j <= k})] = pend[k].nombre

\* A confirmed request went on after a failed PATCH and patched a later entry.
C9_Witness ==
    \E p \in Procs :
        /\ ConfirmadoHecho(p)
        /\ Len(calls[p]) = 4
        /\ calls[p][2].status = 500
        /\ calls[p][3].status = 204
        /\ calls[p][4].status = 200
        /\ Len(resp[p].data) = 2

\* C4: an entrada-inteligente request whose stockAreaId is null or 0 issues no call
\* but the GET of the stock-area list, at most once, whatever its product lines;
\* when that GET succeeded the request ends ok with the selection prompt made of the
\* listed areas.
C4_SoloAlmacenes ==
    \A p \in Procs :
        (req[p].kind = "entrada" /\ req[p].stockAreaId \in {{}, {0}}) =>
            /\ Len(calls[p]) <= 1
            /\ \A k \in 1..Len(calls[p]) :
                  calls[p][k].method = "GET" /\ calls[p][k].path = "area?type=STOCK"
            /\ (pc[p] = "done" /\ Len(calls[p]) = 1 /\ calls[p][1].status = 200)
               => (/\ resp[p].status = 200
                   /\ resp[p].mensaje = "Seleccione un área de stock"
                   /\ Len(resp[p].data) = Len(calls[p][1].items)
                   /\ \A i \in 1..Len(resp[p].data) :
                         resp[p].data[i] = [id |-> calls[p][1].items[i].id,
                                            nombre |-> calls[p][1].items[i].name])

\* A request with stockAreaId 0 and two valid lines was answered with the prompt.
C4_Witness ==
    \E p \in Procs :
        /\ pc[p] = "done"
        /\ req[p].kind = "entrada"
        /\ req[p].stockAreaId = {0}
        /\ Len(req[p].productos) = 2
        /\ resp[p].status = 200
        /\ Len(resp[p].data) = 2
        /\ Len(calls[p]) = 1

\* The items of a listing whose trimmed, lower-cased name is that of `nombre`.
Iguales(items, nombre) ==
    LET pedido == StrLower(StrStrip(nombre))
    IN {i \in 1..Len(items) : StrLower(StrStrip(items[i].name)) = pedido}

Primero(S) == CHOOSE i \in S : \A j \in S : i <= j

\* The category name a request asked obtener_o_crear_categoria for, read from the
\* call that follows the category listing.
CategoriaPedida(p, siguiente) ==
    IF siguiente.path = "salescategory" THEN siguiente.body.name
    ELSE IF req[p].kind = "crear" /\ req[p].categorias # <<>> THEN req[p].categorias[1]
    ELSE inferir_categoria(siguiente.body.name)

\* C5: when a product search lists an item whose trimmed, lower-cased name is the
\* requested one, the next call of the request is the stock entry of the first such
\* item; when a category listing has an item with the requested name, the next call
\* is the product creation under the id of the first such item.  Neither is followed
\* by a POST of the entity looked up, nor by a PATCH.  Stated of the latest call of a
\* request and the one before it: every call is the latest when it is made.
C5_ExistenteNoDuplica ==
    \A p \in Procs :
        Len(calls[p]) >= 2 =>
            LET c == calls[p][Len(calls[p]) - 1]
                n == calls[p][Len(calls[p])]
                productos == Iguales(c.items, c.body)
                categorias == Iguales(c.items, CategoriaPedida(p, n))
            IN /\ (/\ c.method = "GET" /\ c.path = "product?search" /\ c.status = 200
                   /\ productos # {})
                  => (/\ n.method = "POST" /\ n.path = "stock/product-entry"
                      /\ n.body.products[1].productId = c.items[Primero(productos)].id)
               /\ (/\ c.method = "GET" /\ c.path = "salescategory" /\ c.status = 200
                   /\ categorias # {})
                  => (/\ n.method = "POST" /\ n.path = "product"
                      /\ n.body.salesCategoryId = c.items[Primero(categorias)].id)

\* A search listed a product of another name first and two of the requested name
\* with a price other than the requested one, and the stock entry followed.
C5_Witness ==
    \E p \in Procs :
        /\ req[p].kind = "entrada"
        /\ Len(calls[p]) >= 2
        /\ calls[p][1].path = "product?search"
        /\ Cardinality(Iguales(calls[p][1].items, calls[p][1].body)) >= 2
        /\ 1 \notin Iguales(calls[p][1].items, calls[p][1].body)
        /\ calls[p][1].items[2].name # calls[p][1].body
        /\ calls[p][1].items[2].prices[1].price # req[p].productos[1].precio
        /\ calls[p][2].path = "stock/product-entry"

\* A category listing held two categories of the requested name and the product was
\* created under the first.
C5_WitnessCategoria ==
    \E p \in Procs :
        /\ req[p].kind = "crear"
        /\ Len(calls[p]) = 2
        /\ Cardinality(Iguales(calls[p][1].items, CategoriaPedida(p, calls[p][2]))) = 2
        /\ calls[p][2].path = "product"

\* The stock-entry calls of a request, in order.
Entradas(p) == SelectSeq(calls[p], LAMBDA c : c.path = "stock/product-entry")

\* C6: in an entrada-inteligente request that was served to its end, two lines whose
\* names have the same trimmed, lower-cased form were resolved to the same product
\* id, and at most one product of that name was created, before the stock entry of
\* the first of them.
C6_ResolucionIdempotente ==
    \A p \in Procs :
        (/\ pc[p] = "done" /\ req[p].kind = "entrada" /\ resp[p].status = 200
         /\ req[p].stockAreaId \notin {{}, {0}}) =>
            /\ Len(Entradas(p)) = Len(req[p].productos)
            /\ \A i, j \in 1..Len(req[p].productos) :
                  (i < j /\ normalizar(req[p].productos[i].nombre)
                              = normalizar(req[p].productos[j].nombre))
                  => LET first == CHOOSE k \in 1..Len(calls[p]) :
                                     /\ calls[p][k].path = "stock/product-entry"
                                     /\ Cardinality({m \in 1..k :
                                           calls[p][m].path = "stock/product-entry"}) = i
                         creates == {k \in 1..Len(calls[p]) :
                                       /\ calls[p][k].method = "POST"
                                       /\ calls[p][k].path = "product"
                                       /\ normalizar(calls[p][k].body.name)
                                            = normalizar(req[p].productos[i].nombre)}
                     IN /\ Entradas(p)[i].body.products[1].productId
                             = Entradas(p)[j].body.products[1].productId
                        /\ Cardinality(creates) <= 1
                        /\ \A k \in creates : k < first

\* Two lines with two spellings of a name not in the catalogue: one product created,
\* both entries on it.
C6_Witness ==
    \E p \in Procs :
        /\ pc[p] = "done" /\ req[p].kind = "entrada" /\ resp[p].status = 200
        /\ Len(req[p].productos) = 2
        /\ req[p].productos[1].nombre # req[p].productos[2].nombre
        /\ \E k \in 1..Len(calls[p]) : calls[p][k].path = "product"
        /\ Len(Entradas(p)) = 2
        /\ Entradas(p)[1].body.products[1].productId
             = Entradas(p)[2].body.products[1].productId

\* C8: the final step of a successful login of u stores exactly the token of the
\* login answer, the businessId answered and the region of the request under u,
\* replacing what u had and leaving the other users' entries; and every upstream
\* call of a crear-producto-con-categoria, entrada-inteligente or actualizar-monedas
\* request of u carries the bearer token and the business id of u's session.
C8_SesionYCabeceras ==
    [][\A p \in Procs :
          /\ (/\ req'[p].kind = "login" /\ pc[p] # "done" /\ pc'[p] = "done"
              /\ resp'[p].status = 200)
             => (/\ DOMAIN user_context' = DOMAIN user_context \cup {req[p].usuario}
                 /\ user_context'[req[p].usuario]
                      = [token |-> Elem(loc[p].token), businessId |-> resp'[p].data[1],
                         region |-> req[p].region]
                 /\ \A v \in DOMAIN user_context \ {req[p].usuario} :
                       user_context'[v] = user_context[v])
          /\ (req'[p].kind \in AuthFlows /\ calls'[p] # <<>>)
             => (/\ req'[p].usuario \in DOMAIN user_context'
                 /\ \A k \in 1..Len(calls'[p]) :
                       /\ calls'[p][k].auth
                            = <<"Bearer", user_context'[req'[p].usuario].token>>
                       /\ calls'[p][k].bid
                            = <<user_context'[req'[p].usuario].businessId>>)]_vars

\* bob's product creation went through its calls while alice holds a session too.
C8_Witness ==
    \E p \in Procs :
        /\ pc[p] = "done"
        /\ req[p].kind = "crear"
        /\ req[p].usuario = "bob"
        /\ resp[p].status = 200
        /\ Len(calls[p]) >= 2
        /\ "alice" \in DOMAIN user_context
        /\ calls[p][1].auth = <<"Bearer", "T2">>
        /\ calls[p][1].bid = <<7>>

\* C11: when an entrada-inteligente request has ended with an error on a stock-entry
\* call that was answered with a status outside 2xx, no stock entry of that request
\* has been applied upstream: none of its stock-entry calls was answered 2xx.
C11_EntradaAtomica ==
    \A p \in Procs :
        (/\ pc[p] = "done" /\ req[p].kind = "entrada" /\ resp[p].status >= 400
         /\ calls[p] # <<>>
         /\ calls[p][Len(calls[p])].path = "stock/product-entry"
         /\ calls[p][Len(calls[p])].status \notin 200..299)
        => \A k \in 1..Len(Entradas(p)) : Entradas(p)[k].status \notin 200..299

\* The session entry of u, as a set with at most one element.
SesionDe(store, u) == IF u \in DOMAIN store THEN {store[u]} ELSE {}

\* C12: in every interleaving of two workers, a step that changes the session entry
\* of a user u (adds it, replaces it or removes it) is the final step of a successful
\* login of u: no step of the other three flows, no other step of a login and no
\* step of another user's login changes it.
C12_SesionSoloPorLogin ==
    [][\A u \in Users :
          SesionDe(user_context', u) # SesionDe(user_context, u)
          => \E p \in Procs :
                /\ req[p].kind = "login" /\ req[p].usuario = u
                /\ pc[p] = "login_info" /\ pc'[p] = "done"
                /\ resp'[p].status = 200]_vars

\* bob's login succeeded on one worker while the other worker was between two
\* upstream calls of alice's stock entry, and alice's session is as her login left it.
C12_Witness ==
    \E p, q \in Procs :
        /\ p # q
        /\ pc[p] = "done" /\ req[p].kind = "login" /\ req[p].usuario = "bob"
        /\ resp[p].status = 200
        /\ req[q].kind = "entrada" /\ req[q].usuario = "alice"
        /\ pc[q] \notin {"idle", "done"} /\ calls[q] # <<>>
        /\ "bob" \in DOMAIN user_context
        /\ SesionDe(user_context, "alice") = {[token |-> "T1", businessId |-> 42, region |-> ApiDev]}

\* The letters a and b are the same letter, whatever their case.
MismaLetra(a, b) ==
    a = b \/ \E k \in 1..Len(Upper) : {a, b} = {Upper[k], Lower[k]}

\* The name holds the word at some position, whatever the case of its letters.
Contiene(nombre, palabra) ==
    \E i \in 1..(Len(nombre) - Len(palabra) + 1) :
        \A j \in 1..Len(palabra) : MismaLetra(nombre[i + j - 1], palabra[j])

\* C13: the category inferred for a name is "Bebidas Alcohólicas" when the name holds
\* "cerveza", "ron" or "vino" in any case, also when it holds a soft-drink keyword
\* too; otherwise "Refrescos" when it holds "refresco", "soda" or "jugos"; otherwise
\* "Mercado".
C13_InferenciaEnOrden ==
    \A p \in Procs :
        (pc[p] = "done" /\ req[p].kind = "inferir") =>
            LET nombre == req[p].nombre
                alcohol == \E w \in {KwCerveza, KwRon, KwVino} : Contiene(nombre, w)
                refresco == \E w \in {KwRefresco, KwSoda, KwJugos} : Contiene(nombre, w)
            IN resp[p].data = IF alcohol THEN CatAlcohol
                              ELSE IF refresco THEN CatRefrescos
                              ELSE CatMercado

\* "refrescoRON", with a keyword of each rule, was given the first rule's category.
C13_Witness ==
    \E p \in Procs :
        /\ pc[p] = "done" /\ req[p].kind = "inferir"
        /\ Contiene(req[p].nombre, KwRefresco)
        /\ Contiene(req[p].nombre, KwRon)
        /\ resp[p].data = CatAlcohol

\* C14: when a confirmed actualizar-monedas request has ended, the catalogue holds
\* the products of the listing it was given, each with as many price entries as
\* before: an entry whose currency was not moneda_actual is as it was (price,
\* currency, systemPriceId), and an entry whose currency was moneda_actual has its
\* price and systemPriceId and the old or the new currency.
C14_OtrasMonedasIntactas ==
    \A p \in Procs :
        ConfirmadoHecho(p) =>
            LET antes == calls[p][1].items IN
            /\ Len(products) = Len(antes)
            /\ \A i \in 1..Len(antes) :
                  LET pa == PreciosDe(antes[i])
                      ph == PreciosDe(products[i])
                  IN /\ products[i].id = antes[i].id
                     /\ products[i].name = antes[i].name
                     /\ Len(ph) = Len(pa)
                     /\ \A j \in 1..Len(pa) :
                           IF pa[j].codeCurrency # req[p].moneda_actual
                           THEN ph[j] = pa[j]
                           ELSE /\ ph[j].price = pa[j].price
                                /\ ph[j].systemPriceId = pa[j].systemPriceId
                                /\ ph[j].codeCurrency
                                     \in {req[p].moneda_actual, req[p].nueva_moneda}

\* A migration from EUR changed the second price entry of a product and left its
\* first entry, in USD, as it was.
C14_Witness ==
    \E p \in Procs :
        /\ ConfirmadoHecho(p)
        /\ req[p].moneda_actual = "EUR"
        /\ \E i \in 1..Len(products) :
              /\ Len(PreciosDe(products[i])) = 2
              /\ PreciosDe(products[i])[1].codeCurrency = "USD"
              /\ PreciosDe(calls[p][1].items[i])[2].codeCurrency = "EUR"
              /\ PreciosDe(products[i])[2].codeCurrency = "CUP"

\* C15: a login request that has ended after its upstream login call was answered
\* with a status other than 200 has ended with the 401 "Credenciales inválidas"; one
\* whose user-info call was answered with a status other than 200 has ended with an
\* error; and one that has ended ok, storing the session, had both calls answered 200.
C15_LoginSoloCon200 ==
    \A p \in Procs :
        (pc[p] = "done" /\ req[p].kind = "login" /\ calls[p] # <<>>) =>
            /\ calls[p][1].status # 200 => resp[p].status = 401
            /\ (Len(calls[p]) = 2 /\ calls[p][2].status # 200) => resp[p].status >= 400
            /\ resp[p].status = 200 =>
                  /\ Len(calls[p]) = 2
                  /\ calls[p][1].status = 200
                  /\ calls[p][2].status = 200
                  /\ req[p].usuario \in DOMAIN user_context

\* C16: in an entrada-inteligente request with a stock area, an upstream call answered
\* with a status outside 2xx is the last call of the request, and the request has
\* ended with an error: nothing is called after it, for its line or a later one, and
\* it is not issued again.
C16_PrimerFalloAborta ==
    \A p \in Procs :
        (req[p].kind = "entrada" /\ ~Falsy(req[p].stockAreaId)) =>
            \A k \in 1..Len(calls[p]) :
                calls[p][k].status \notin 200..299
                => /\ k = Len(calls[p])
                   /\ pc[p] = "done"
                   /\ resp[p].status = 500

\* A request of two lines ended on the failed creation of the product of its first
\* line, after the search and the category resolution.
C16_Witness ==
    \E p \in Procs :
        /\ pc[p] = "done" /\ req[p].kind = "entrada"
        /\ Len(req[p].productos) = 2
        /\ Len(calls[p]) = 4
        /\ calls[p][3].path = "salescategory" /\ calls[p][3].method = "POST"
        /\ calls[p][4].path = "product" /\ calls[p][4].status = 500
        /\ resp[p].status = 500

\* The places of the call log of p where a product was created.
Creaciones(p) ==
    {k \in 1..Len(calls[p]) :
        /\ calls[p][k].method = "POST" /\ calls[p][k].path = "product"
        /\ calls[p][k].status \in 200..299}

\* The search that came before place k of the call log of p.
BusquedaAntes(p, k) ==
    calls[p][CHOOSE m \in 1..k :
                /\ calls[p][m].path = "product?search"
                /\ \A n \in (m + 1)..k : calls[p][n].path # "product?search"]

\* C17: two entrada-inteligente requests served at the same time can both create the
\* product of one name.  When both have, each had been given a search listing with
\* no product of that name, and the catalogue holds two products or more whose
\* trimmed, lower-cased name is that one.
C17_CarreraDuplica ==
    \A p, q \in Procs :
        (p # q /\ req[p].kind = "entrada" /\ req[q].kind = "entrada") =>
            \A k \in Creaciones(p), m \in Creaciones(q) :
                normalizar(calls[p][k].body.name) = normalizar(calls[q][m].body.name)
                => /\ Iguales(BusquedaAntes(p, k).items, calls[p][k].body.name) = {}
                   /\ Iguales(BusquedaAntes(q, m).items, calls[q][m].body.name) = {}
                   /\ Cardinality(Iguales(products, calls[p][k].body.name)) >= 2

\* Both requests, for two spellings of a name the catalogue did not hold, created
\* the product and were answered ok.
C17_Witness ==
    \E p, q \in Procs :
        /\ p # q
        /\ pc[p] = "done" /\ req[p].kind = "entrada" /\ resp[p].status = 200
        /\ pc[q] = "done" /\ req[q].kind = "entrada" /\ resp[q].status = 200
        /\ req[p].productos[1].nombre = NRon /\ req[q].productos[1].nombre = NRonVar
        /\ Creaciones(p) # {} /\ Creaciones(q) # {}
        /\ Len(products) = 2
        /\ Iguales(products, NRon) = {1, 2}

\* C18: a confirmed actualizar-monedas request that has ended has issued at most one
\* PATCH per product, carrying every price entry of the product in moneda_actual,
\* and productos_actualizados has at most one name per PATCHed product.
C18_UnPatchPorProducto ==
    \A p \in Procs :
        ConfirmadoHecho(p) =>
            LET antes == calls[p][1].items
                patches == {k \in 2..Len(calls[p]) : calls[p][k].method = "PATCH"}
            IN /\ \A k, m \in patches : calls[p][k].body.id = calls[p][m].body.id => k = m
               /\ \A k \in patches : \A i \in 1..Len(antes) :
                     antes[i].id = calls[p][k].body.id
                     => Len(calls[p][k].body.prices)
                          = Cardinality({j \in 1..Len(PreciosDe(antes[i])) :
                               PreciosDe(antes[i])[j].codeCurrency = req[p].moneda_actual})
               /\ Len(resp[p].data) <= Cardinality({calls[p][k].body.id : k \in patches})

\* The number of stock-entry calls among the first k calls of p.
EntradasHasta(p, k) ==
    Cardinality({m \in 1..k : calls[p][m].path = "stock/product-entry"})

\* C19: in an entrada-inteligente request with a stock area, the calls follow the
\* lines in request order, one line at a time: every search is for the line after
\* the lines already entered; a stock entry comes after the resolution calls of its
\* line, all answered ok, and carries the id the resolution gave (the first listed
\* product of the line's name, or the product just created with the line's name),
\* the line's quantity and the requested area; and a request answered ok has entered
\* every line and answers the names of its lines in request order.  The calls are
\* looked at as they are made: every call is the latest call of its request then.
C19_LineasEnOrden ==
    \A p \in Procs :
        (req[p].kind = "entrada" /\ ~Falsy(req[p].stockAreaId)) =>
            LET lineas == req[p].productos
                k == Len(calls[p])
                c == calls[p][k]
                i == EntradasHasta(p, k - 1) + 1
            IN
            /\ k > 0 =>
                  /\ i <= Len(lineas)
                  /\ c.path = "product?search" =>
                        /\ c.body = lineas[i].nombre
                        /\ k = 1 \/ calls[p][k - 1].path = "stock/product-entry"
                  /\ c.path = "stock/product-entry" =>
                        LET r == calls[p][k - 1]
                            id == c.body.products[1].productId
                            listados == Iguales(r.items, lineas[i].nombre)
                        IN /\ k > 1
                           /\ r.status \in 200..299
                           /\ c.body = [products |-> <<[productId |-> id,
                                                        quantity |-> lineas[i].cantidad]>>,
                                        stockAreaId |-> Elem(req[p].stockAreaId),
                                        continue |-> FALSE]
                           /\ \/ /\ r.path = "product?search" /\ listados # {}
                                 /\ id = r.items[Primero(listados)].id
                              \/ /\ r.path = "product" /\ r.method = "POST"
                                 /\ r.body.name = lineas[i].nombre
                                 /\ \E j \in 1..Len(products) :
                                       /\ products[j].id = id
                                       /\ products[j].name = lineas[i].nombre
            /\ (pc[p] = "done" /\ resp[p].status = 200) =>
                  /\ Len(Entradas(p)) = Len(lineas)
                  /\ resp[p].data = [n \in 1..Len(lineas) |-> lineas[n].nombre]

\* A request of two lines was answered ok: the product of the first line was created
\* and entered, then the second line was found and entered with its own quantity.
C19_Witness ==
    \E p \in Procs :
        /\ pc[p] = "done" /\ req[p].kind = "entrada" /\ resp[p].status = 200
        /\ Len(req[p].productos) = 2
        /\ req[p].productos[1].cantidad # req[p].productos[2].cantidad
        /\ Len(calls[p]) = 7
        /\ calls[p][4].path = "product"
        /\ calls[p][5].path = "stock/product-entry"
        /\ calls[p][6].path = "product?search"
        /\ calls[p][7].body.products[1].quantity = req[p].productos[2].cantidad
        /\ resp[p].data = <<req[p].productos[1].nombre, req[p].productos[2].nombre>>

\* The region is "apidev" in some case, between blanks or none.
EsApiDev(region) ==
    \E i \in 1..Len(region) :
        /\ i + Len(ApiDev) - 1 <= Len(region)
        /\ \A k \in 1..Len(ApiDev) : MismaLetra(region[i + k - 1], ApiDev[k])
        /\ \A k \in 1..Len(region) :
              (k < i \/ k >= i + Len(ApiDev)) => region[k] \in {" ", "\t", "\n"}

\* C20: a login request whose region is not "apidev" (trimmed, in any case) ends when
\* it is accepted with the 400 "Región inválida", with no upstream call and the
\* session map as it was; every session of the session map has such a region; and no
\* request to the three authenticated flows is answered "Región inválida".
C20_RegionUnica ==
    [][\A p \in Procs :
          /\ (Accepts(p) /\ req'[p].kind = "login" /\ ~EsApiDev(req'[p].region))
             => (/\ pc'[p] = "done"
                 /\ resp'[p].status = 400
                 /\ resp'[p].mensaje = "Región inválida"
                 /\ calls'[p] = <<>>
                 /\ user_context' = user_context)
          /\ \A u \in DOMAIN user_context' : EsApiDev(user_context'[u].region)
          /\ req'[p].kind \in AuthFlows => resp'[p].mensaje # "Región inválida"]_vars

\* A user whose session holds the region " ApiDev" asked to log in with another
\* region and was refused at once, and the session is still there.
C20_Witness ==
    \E p \in Procs :
        /\ pc[p] = "done" /\ req[p].kind = "login"
        /\ req[p].region = RegionProd
        /\ resp[p].mensaje = "Región inválida"
        /\ calls[p] = <<>>
        /\ req[p].usuario \in DOMAIN user_context
        /\ user_context[req[p].usuario].region = ApiDevVar

====
